---- MODULE Spec2Model ----
(***************************************************************************)
(* Black-Scholes option pricing (streamlit_app.py): the BlackScholes       *)
(* class, its calculate_prices method, and the two grid sweeps             *)
(* plot_heatmap and plot_price_diff_colormap, driven by the script's       *)
(* main section.                                                           *)
(*                                                                         *)
(* Floats are modelled as fixed-point numbers with three decimals (the     *)
(* integer v stands for v / ONE), rounded to nearest after every           *)
(* operation as a float is, together with the IEEE special values nan,     *)
(* inf and -inf that numpy produces instead of raising.  A value also      *)
(* carries whether it is a numpy scalar (np) or a built-in Python float:   *)
(* a built-in float divided by zero raises ZeroDivisionError, a numpy      *)
(* scalar divided by zero yields inf or nan.  Signed zeros are not         *)
(* modelled: no volatility of the model is negative, so sigma * sqrt(T)    *)
(* is never -0.0, and where strike * sigma * sqrt(T) is (a negative        *)
(* strike with T = 0) the numerator pdf(d1) is nan already.                *)
(***************************************************************************)
EXTENDS Integers, Sequences, FiniteSets, TLC

\* The fixed-point unit: the integer ONE stands for the float 1.0.
ONE == 1000

----------------------------------------------------------------------------
(* Float values *)

Mk(c, x, n) == [cls |-> c, v |-> x, np |-> n]
\* A built-in Python float, as st.number_input returns.
Py(x) == Mk("fin", x, FALSE)
\* A numpy float64, as iterating an np.linspace array yields.
Np(x) == Mk("fin", x, TRUE)
NaN(n) == Mk("nan", 0, n)
PInf(n) == Mk("inf", 0, n)
NInf(n) == Mk("ninf", 0, n)
\* An attribute that has not been assigned.
Unset == Mk("unset", 0, FALSE)
\* The error value of an operation that raised ZeroDivisionError.
ZDE == Mk("zde", 0, FALSE)

IsFin(a) == a.cls = "fin"
IsNaN(a) == a.cls = "nan"
Raised(a) == a.cls = "zde"

Abs(x) == IF x < 0 THEN -x ELSE x
SgnInt(x) == IF x > 0 THEN 1 ELSE IF x < 0 THEN -1 ELSE 0
\* The sign of a float value that is not nan.
Sgn(a) == IF a.cls = "inf" THEN 1 ELSE IF a.cls = "ninf" THEN -1 ELSE SgnInt(a.v)
Signed(s, n) == IF s > 0 THEN PInf(n) ELSE NInf(n)

\* n / d rounded to the nearest integer, d > 0, ties away from zero.
RoundDiv(n, d) == IF n >= 0 THEN (2 * n + d) \div (2 * d)
                            ELSE -((2 * (-n) + d) \div (2 * d))

FNeg(a) ==
    CASE Raised(a) -> ZDE
      [] a.cls = "inf" -> NInf(a.np)
      [] a.cls = "ninf" -> PInf(a.np)
      [] a.cls = "nan" -> a
      [] OTHER -> Mk("fin", -a.v, a.np)

FAdd(a, b) ==
    LET n == a.np \/ b.np IN
    CASE Raised(a) \/ Raised(b) -> ZDE
      [] IsNaN(a) \/ IsNaN(b) -> NaN(n)
      [] IsFin(a) /\ IsFin(b) -> Mk("fin", a.v + b.v, n)
      [] IsFin(a) -> Mk(b.cls, 0, n)
      [] IsFin(b) -> Mk(a.cls, 0, n)
      [] a.cls = b.cls -> Mk(a.cls, 0, n)
      [] OTHER -> NaN(n)

FSub(a, b) == FAdd(a, FNeg(b))

FMul(a, b) ==
    LET n == a.np \/ b.np IN
    CASE Raised(a) \/ Raised(b) -> ZDE
      [] IsNaN(a) \/ IsNaN(b) -> NaN(n)
      [] IsFin(a) /\ IsFin(b) -> Mk("fin", RoundDiv(a.v * b.v, ONE), n)
      [] Sgn(a) * Sgn(b) = 0 -> NaN(n)
      [] OTHER -> Signed(Sgn(a) * Sgn(b), n)

\* a / b.  Two built-in floats with b == 0.0 raise ZeroDivisionError; with a numpy
\* operand the quotient is inf, -inf or nan (and a RuntimeWarning).
FDiv(a, b) ==
    LET n == a.np \/ b.np IN
    CASE Raised(a) \/ Raised(b) -> ZDE
      [] IsFin(b) /\ b.v = 0 /\ ~n -> ZDE
      [] IsNaN(a) \/ IsNaN(b) -> NaN(n)
      [] IsFin(b) /\ b.v = 0 ->
            IF Sgn(a) = 0 THEN NaN(n) ELSE Signed(Sgn(a), n)
      [] IsFin(a) /\ IsFin(b) ->
            Mk("fin", SgnInt(b.v) * RoundDiv(a.v * ONE, Abs(b.v)), n)
      [] IsFin(a) -> Mk("fin", 0, n)
      [] IsFin(b) -> Signed(Sgn(a) * Sgn(b), n)
      [] OTHER -> NaN(n)

\* a ** 2
FSquare(a) == FMul(a, a)

----------------------------------------------------------------------------
(* numpy's log, sqrt and exp, scipy's norm.cdf and norm.pdf *)

RECURSIVE ISqrt(_, _, _)
\* The largest s in lo..hi with s * s <= n, by bisection (lo * lo <= n).
ISqrt(n, lo, hi) ==
    IF lo >= hi THEN lo
    ELSE LET mid == (lo + hi + 1) \div 2
         IN  IF mid * mid <= n THEN ISqrt(n, mid, hi) ELSE ISqrt(n, lo, mid - 1)

\* sqrt of the fixed-point x >= 0, to the nearest unit.
SqrtFix(x) ==
    LET s == ISqrt(x * ONE, 0, 40 * ONE)
    IN  IF (x * ONE - s * s) > s THEN s + 1 ELSE s

RECURSIVE LnFix(_)
\* ln of the fixed-point x > 0: ln x = 2 atanh((x - 1) / (x + 1)) on [1, 2),
\* reduced to that interval with ln 2 = 0.693.
LnFix(x) ==
    IF x >= 2 * ONE THEN 693 + LnFix(RoundDiv(x, 2))
    ELSE IF x < ONE THEN LnFix(2 * x) - 693
    ELSE LET z  == RoundDiv((x - ONE) * ONE * 10, x + ONE)
             z2 == RoundDiv(z * z, ONE * 10)
             z3 == RoundDiv(z2 * z, ONE * 10)
             z5 == RoundDiv(z3 * z2, ONE * 10)
             z7 == RoundDiv(z5 * z2, ONE * 10)
         IN  RoundDiv(2 * (105 * z + 35 * z3 + 21 * z5 + 15 * z7), 1050)

RECURSIVE ExpFix(_)
\* exp of the fixed-point x: the Taylor polynomial on [0, 0.5], exp(a + b) =
\* exp(a) exp(b) above it, 1 / exp(-x) below zero.
ExpFix(x) ==
    IF x < 0 THEN (IF x < -10 * ONE THEN 0 ELSE RoundDiv(ONE * ONE, ExpFix(-x)))
    ELSE IF x > ONE \div 2
    THEN RoundDiv(ExpFix(x \div 2) * ExpFix(x - x \div 2), ONE)
    ELSE LET t1 == x
             t2 == RoundDiv(t1 * x, 2 * ONE)
             t3 == RoundDiv(t2 * x, 3 * ONE)
             t4 == RoundDiv(t3 * x, 4 * ONE)
         IN  ONE + t1 + t2 + t3 + t4

\* The standard normal CDF at 0.0, 0.1, ..., 4.0.
CdfTable == <<500, 540, 579, 618, 655, 691, 726, 758, 788, 816,
              841, 864, 885, 903, 919, 933, 945, 955, 964, 971,
              977, 982, 986, 989, 992, 994, 995, 997, 997, 998,
              999, 999, 999, 1000, 1000, 1000, 1000, 1000, 1000, 1000, 1000>>

\* The standard normal density at 0.0, 0.1, ..., 4.0.
PdfTable == <<399, 397, 391, 381, 368, 352, 333, 312, 290, 266,
              242, 218, 194, 171, 150, 130, 111, 94, 79, 66,
              54, 44, 35, 28, 22, 18, 14, 10, 8, 6,
              4, 3, 2, 2, 1, 1, 1, 0, 0, 0, 0>>

\* The table's value at the fixed-point x >= 0, interpolated linearly.
Interp(tab, x) ==
    LET step == ONE \div 10
        k    == x \div step
    IN  IF k + 1 >= Len(tab) THEN tab[Len(tab)]
        ELSE tab[k + 1] + RoundDiv((tab[k + 2] - tab[k + 1]) * (x - k * step), step)

CdfFix(x) == IF x >= 0 THEN Interp(CdfTable, x) ELSE ONE - Interp(CdfTable, -x)
PdfFix(x) == Interp(PdfTable, Abs(x))

Log(a) ==
    CASE Raised(a) -> ZDE
      [] a.cls = "inf" -> PInf(TRUE)
      [] a.cls \in {"nan", "ninf"} -> NaN(TRUE)
      [] a.v > 0 -> Np(LnFix(a.v))
      [] a.v = 0 -> NInf(TRUE)
      [] OTHER -> NaN(TRUE)

Sqrt(a) ==
    CASE Raised(a) -> ZDE
      [] a.cls = "inf" -> PInf(TRUE)
      [] a.cls \in {"nan", "ninf"} -> NaN(TRUE)
      [] a.v >= 0 -> Np(SqrtFix(a.v))
      [] OTHER -> NaN(TRUE)

Exp(a) ==
    CASE Raised(a) -> ZDE
      [] a.cls = "inf" -> PInf(TRUE)
      [] a.cls = "ninf" -> Np(0)
      [] a.cls = "nan" -> NaN(TRUE)
      [] OTHER -> Np(ExpFix(a.v))

NormCdf(a) ==
    CASE Raised(a) -> ZDE
      [] a.cls = "inf" -> Np(ONE)
      [] a.cls = "ninf" -> Np(0)
      [] a.cls = "nan" -> NaN(TRUE)
      [] OTHER -> Np(CdfFix(a.v))

NormPdf(a) ==
    CASE Raised(a) -> ZDE
      [] a.cls \in {"inf", "ninf"} -> Np(0)
      [] a.cls = "nan" -> NaN(TRUE)
      [] OTHER -> Np(PdfFix(a.v))

----------------------------------------------------------------------------
(* class BlackScholes *)

\* __init__: the five parameters; no derived attribute exists yet.
BlackScholes(time_to_maturity, strike, current_price, volatility, interest_rate) ==
    [time_to_maturity |-> time_to_maturity,
     strike           |-> strike,
     current_price    |-> current_price,
     volatility       |-> volatility,
     interest_rate    |-> interest_rate,
     call_price |-> Unset, put_price |-> Unset,
     call_delta |-> Unset, put_delta |-> Unset,
     call_gamma |-> Unset, put_gamma |-> Unset]

Half == Py(ONE \div 2)
One == Py(ONE)

\* d1 = (log(S / K) + (r + 0.5 * sigma ** 2) * T) / (sigma * sqrt(T))
D1(self) ==
    FDiv(FAdd(Log(FDiv(self.current_price, self.strike)),
              FMul(FAdd(self.interest_rate, FMul(Half, FSquare(self.volatility))),
                   self.time_to_maturity)),
         FMul(self.volatility, Sqrt(self.time_to_maturity)))

\* d2 = d1 - sigma * sqrt(T)
D2(self, d1) == FSub(d1, FMul(self.volatility, Sqrt(self.time_to_maturity)))

\* exp(-(interest_rate * time_to_maturity))
Discount(self) == Exp(FNeg(FMul(self.interest_rate, self.time_to_maturity)))

CallPrice(self, d1, d2) ==
    FSub(FMul(self.current_price, NormCdf(d1)),
         FMul(FMul(self.strike, Discount(self)), NormCdf(d2)))

\* PutPrice with norm.cdf(d2) and norm.cdf(d1) where the code negates both.
PutPrice_unnegated(self, d1, d2) ==
    FSub(FMul(FMul(self.strike, Discount(self)), NormCdf(d2)),
         FMul(self.current_price, NormCdf(d1)))

PutPrice(self, d1, d2) ==
    FSub(FMul(FMul(self.strike, Discount(self)), NormCdf(FNeg(d2))),
         FMul(self.current_price, NormCdf(FNeg(d1))))

CallDelta(d1) == NormCdf(d1)

PutDelta(d1) == FSub(One, NormCdf(d1))

CallGamma(self, d1) ==
    FDiv(NormPdf(d1),
         FMul(FMul(self.strike, self.volatility), Sqrt(self.time_to_maturity)))

\* Whether calculate_prices raises: current_price / strike, in its first statement,
\* is the only operation of the method that can.
Raises(self) == Raised(FDiv(self.current_price, self.strike))

\* calculate_prices that returns without assigning any attribute.
calculate_prices_skipped(self) == self

\* The object after calculate_prices returned normally.
calculate_prices(self) ==
    LET d1 == D1(self)
        d2 == D2(self, d1)
        call_gamma == CallGamma(self, d1)
    IN  [self EXCEPT !.call_price = CallPrice(self, d1, d2),
                     !.put_price  = PutPrice(self, d1, d2),
                     !.call_delta = CallDelta(d1),
                     !.put_delta  = PutDelta(d1),
                     !.call_gamma = call_gamma,
                     !.put_gamma  = call_gamma]

----------------------------------------------------------------------------
(* The script: sidebar inputs, the base evaluation, and the two sweeps *)

\* The largest number of points of a range of the model.  The script's ranges have
\* ten points each; the sweeps themselves take ranges of any length.
MaxCount == 2

TimeInputs     == {0, ONE \div 4, ONE}
StrikeInputs   == {-(100 * ONE), 0, 100 * ONE}
SpotInputs     == {100 * ONE, 120 * ONE}
VolInputs      == {ONE \div 5}
RateInputs     == {-(ONE \div 20), ONE \div 20}
\* A strike handed to plot_heatmap that is not the base model's.
OtherStrike    == Py(110 * ONE)

\* np.linspace(lo, hi, n): n evenly spaced numpy floats from lo to hi.
Linspace(lo, hi, n) ==
    [k \in 1..n |-> IF n = 1 THEN Np(lo) ELSE Np(lo + RoundDiv((hi - lo) * (k - 1), n - 1))]

\* A name that is not bound to an object yet.
None == BlackScholes(Unset, Unset, Unset, Unset, Unset)
NoFig == [fn |-> "none", option_type |-> "none", strike |-> Unset, data |-> <<>>]
NoArgs == [strike |-> Unset, purchase_price_range |-> <<>>, option_type |-> "none"]

VARIABLES
    inputs,       \* the sidebar's values and the ranges computed from them
    obj,          \* the objects bound to the names bs_model and bs_temp
    prices,       \* <<call_price, put_price>> of the script, once line 184 has run
    pc,           \* the statement the script is at
    fn,           \* the sweep being executed, "main" outside of one
    args,         \* the executing sweep's strike, purchase_price_range, option_type
    i, j,         \* the loop indices (enumerate's, counted from 1)
    price_diffs,  \* the executing sweep's matrix
    fig,          \* the figure the last completed sweep returned
    exc           \* the exception that ended the script, "none" while it runs

vars == <<inputs, obj, prices, pc, fn, args, i, j, price_diffs, fig, exc>>

\* The state when the sidebar has been read: every number_input holds a float, and
\* the three ranges are linspace arrays.  The purchase range is one shorter than,
\* as long as, or one longer than vol_range (the script's are equally long).
Init ==
    /\ \E T \in TimeInputs, K \in StrikeInputs, S \in SpotInputs,
          sigma \in VolInputs, r \in RateInputs,
          n \in 1..MaxCount, m \in 1..MaxCount :
       \E p \in {m - 1, m, m + 1} :
          inputs = [time_to_maturity |-> Py(T), strike |-> Py(K),
                    current_price |-> Py(S), volatility |-> Py(sigma),
                    interest_rate |-> Py(r),
                    spot_range |-> Linspace(80 * ONE, 120 * ONE, n),
                    vol_range |-> Linspace(ONE \div 10, (3 * ONE) \div 10, m),
                    purchase_range |-> Linspace(8 * ONE, 12 * ONE, p)]
    /\ obj = [bs_model |-> None, bs_temp |-> None]
    /\ prices = <<Unset, Unset>>
    /\ pc = "L183"
    /\ fn = "main"
    /\ args = NoArgs
    /\ i = 0
    /\ j = 0
    /\ price_diffs = <<>>
    /\ fig = NoFig
    /\ exc = "none"

\* bs_model = BlackScholes(time_to_maturity, strike, current_price, volatility, interest_rate)
MainConstruct ==
    /\ pc = "L183"
    /\ obj' = [obj EXCEPT !.bs_model =
                  BlackScholes(inputs.time_to_maturity, inputs.strike,
                               inputs.current_price, inputs.volatility,
                               inputs.interest_rate)]
    /\ pc' = "L184"
    /\ UNCHANGED <<inputs, prices, fn, args, i, j, price_diffs, fig, exc>>

\* call_price, put_price = bs_model.calculate_prices()
MainCalculate ==
    /\ pc = "L184"
    /\ ~Raises(obj.bs_model)
    /\ obj' = [obj EXCEPT !.bs_model = calculate_prices(obj.bs_model)]
    /\ prices' = <<obj'.bs_model.call_price, obj'.bs_model.put_price>>
    /\ pc' = "main"
    /\ UNCHANGED <<inputs, fn, args, i, j, price_diffs, fig, exc>>

\* The same statement when current_price / strike raises: nothing is assigned and
\* the exception ends the script.
MainCalculateRaises ==
    /\ pc = "L184"
    /\ Raises(obj.bs_model)
    /\ pc' = "error"
    /\ exc' = "ZeroDivisionError"
    /\ UNCHANGED <<inputs, obj, prices, fn, args, i, j, price_diffs, fig>>

\* np.zeros((len(vol_range), len(spot_range)))
Zeros(m, n) == [a \in 1..m |-> [b \in 1..n |-> Np(0)]]

\* A call plot_heatmap(bs_model, spot_range, vol_range, strike, option_type), up to
\* the start of its loop.
CallHeatmap ==
    /\ pc = "main"
    /\ \E k \in {inputs.strike, OtherStrike}, t \in {"call", "put"} :
          args' = [strike |-> k, purchase_price_range |-> <<>>, option_type |-> t]
    /\ fn' = "plot_heatmap"
    /\ price_diffs' = Zeros(Len(inputs.vol_range), Len(inputs.spot_range))
    /\ i' = 1
    /\ j' = 1
    /\ pc' = "new"
    /\ UNCHANGED <<inputs, obj, prices, fig, exc>>

\* A call plot_price_diff_colormap(bs_model, spot_range, vol_range,
\* purchase_price_range, option_type), up to the start of its loop.
CallPriceDiff ==
    /\ pc = "main"
    /\ \E t \in {"call", "put"} :
          args' = [strike |-> Unset, purchase_price_range |-> inputs.purchase_range,
                   option_type |-> t]
    /\ fn' = "plot_price_diff_colormap"
    /\ price_diffs' = Zeros(Len(inputs.vol_range), Len(inputs.spot_range))
    /\ i' = 1
    /\ j' = 1
    /\ pc' = "new"
    /\ UNCHANGED <<inputs, obj, prices, fig, exc>>

\* CellObject when a sweep reuses the base model for its cells.
CellObject_base == "bs_model"

\* The name each cell's object is bound to.
CellObject == "bs_temp"

\* HeatmapTemp that ignores the strike argument for the base model's strike.
HeatmapTemp_baseStrike(bs_model, strike, spot, vol) ==
    BlackScholes(bs_model.time_to_maturity, bs_model.strike, spot, vol,
                 bs_model.interest_rate)

\* plot_heatmap's BlackScholes(...) for one cell.
HeatmapTemp(bs_model, strike, spot, vol) ==
    BlackScholes(bs_model.time_to_maturity, strike, spot, vol, bs_model.interest_rate)

\* plot_price_diff_colormap's BlackScholes(...) for one cell.
PriceDiffTemp(bs_model, spot, vol) ==
    BlackScholes(bs_model.time_to_maturity, bs_model.strike, spot, vol,
                 bs_model.interest_rate)

\* bs_temp = BlackScholes(...)
CellConstruct ==
    /\ pc = "new"
    /\ LET vol  == inputs.vol_range[i]
           spot == inputs.spot_range[j]
       IN  obj' = [obj EXCEPT ![CellObject] =
                      IF fn = "plot_heatmap"
                      THEN HeatmapTemp(obj.bs_model, args.strike, spot, vol)
                      ELSE PriceDiffTemp(obj.bs_model, spot, vol)]
    /\ pc' = "calc"
    /\ UNCHANGED <<inputs, prices, fn, args, i, j, price_diffs, fig, exc>>

\* bs_temp.calculate_prices().  spot is a numpy float, so current_price / strike
\* never raises here.
CellCalculate ==
    /\ pc = "calc"
    /\ obj' = [obj EXCEPT ![CellObject] = calculate_prices(obj[CellObject])]
    /\ pc' = "store"
    /\ UNCHANGED <<inputs, prices, fn, args, i, j, price_diffs, fig, exc>>

\* bs_temp.call_price if option_type == "call" else bs_temp.put_price
Predicted(bs_temp, option_type) ==
    IF option_type = "call" THEN bs_temp.call_price ELSE bs_temp.put_price

\* DiffCell that subtracts the reference of the spot column where there is one.
DiffCell_byColumn(predicted_price, purchase_price_range, row, col) ==
    FSub(predicted_price,
         purchase_price_range[IF col <= Len(purchase_price_range) THEN col ELSE row])

\* predicted_price - purchase_price_range[i]
DiffCell(predicted_price, purchase_price_range, row, col) ==
    FSub(predicted_price, purchase_price_range[row])

\* The loop's next position: the next spot, else the next vol, else the plotting.
Advance ==
    IF j < Len(inputs.spot_range) THEN /\ j' = j + 1 /\ i' = i /\ pc' = "new"
    ELSE IF i < Len(inputs.vol_range) THEN /\ j' = 1 /\ i' = i + 1 /\ pc' = "new"
    ELSE /\ j' = j /\ i' = i /\ pc' = "plot"

\* price_diffs[i, j] = predicted_price
HeatmapStore ==
    /\ pc = "store"
    /\ fn = "plot_heatmap"
    /\ price_diffs' = [price_diffs EXCEPT ![i][j] =
                          Predicted(obj[CellObject], args.option_type)]
    /\ Advance
    /\ UNCHANGED <<inputs, obj, prices, fn, args, fig, exc>>

\* price_diffs[i, j] = predicted_price - purchase_price_range[i]
PriceDiffStore ==
    /\ pc = "store"
    /\ fn = "plot_price_diff_colormap"
    /\ i <= Len(args.purchase_price_range)
    /\ price_diffs' = [price_diffs EXCEPT ![i][j] =
                          DiffCell(Predicted(obj[CellObject], args.option_type),
                                   args.purchase_price_range, i, j)]
    /\ Advance
    /\ UNCHANGED <<inputs, obj, prices, fn, args, fig, exc>>

\* The same statement when purchase_price_range has no index i: IndexError leaves
\* the function and ends the script; no figure is returned.
PriceDiffStoreRaises ==
    /\ pc = "store"
    /\ fn = "plot_price_diff_colormap"
    /\ i > Len(args.purchase_price_range)
    /\ pc' = "error"
    /\ exc' = "IndexError"
    /\ UNCHANGED <<inputs, obj, prices, fn, args, i, j, price_diffs, fig>>

\* The heatmap is drawn from price_diffs and the figure returned to the script.
Plot ==
    /\ pc = "plot"
    /\ fig' = [fn |-> fn, option_type |-> args.option_type, strike |-> args.strike,
               data |-> price_diffs]
    /\ fn' = "main"
    /\ args' = NoArgs
    /\ price_diffs' = <<>>
    /\ i' = 0
    /\ j' = 0
    /\ pc' = "main"
    /\ UNCHANGED <<inputs, obj, prices, exc>>

Next ==
    \/ MainConstruct
    \/ MainCalculate
    \/ MainCalculateRaises
    \/ CallHeatmap
    \/ CallPriceDiff
    \/ CellConstruct
    \/ CellCalculate
    \/ HeatmapStore
    \/ PriceDiffStore
    \/ PriceDiffStoreRaises
    \/ Plot

Spec == Init /\ [][Next]_vars

----------------------------------------------------------------------------
(* Properties *)

Names == {"bs_model", "bs_temp"}
DerivedFields == {"call_price", "put_price", "call_delta", "put_delta",
                  "call_gamma", "put_gamma"}
Bound(o) == o.current_price # Unset
Calculated(o) == Bound(o) /\ o.call_price # Unset
Positive(a) == IsFin(a) /\ a.v > 0
\* S > 0, K > 0, T > 0, sigma > 0.
Valid(o) ==
    /\ Positive(o.current_price) /\ Positive(o.strike)
    /\ Positive(o.time_to_maturity) /\ Positive(o.volatility)
Rows == 1..Len(inputs.vol_range)
Cols == 1..Len(inputs.spot_range)
InSweep == fn \in {"plot_heatmap", "plot_price_diff_colormap"}

\* The price of the option type for the five parameters alone.
Price(T, K, S, sigma, r, option_type) ==
    LET o  == BlackScholes(T, K, S, sigma, r)
        d1 == D1(o)
        d2 == D2(o, d1)
    IN  IF option_type = "call" THEN CallPrice(o, d1, d2) ELSE PutPrice(o, d1, d2)

\* C1: when plot_heatmap has filled its matrix, the matrix has len(vol_range) rows
\* and len(spot_range) columns and cell [a][b] is the call or put price (per
\* option_type) for current_price = spot_range[b], volatility = vol_range[a], the
\* strike argument, and the base model's time_to_maturity and interest_rate; the
\* base model's strike, spot and volatility do not enter.
C1_HeatmapCells ==
    (pc = "plot" /\ fn = "plot_heatmap") =>
        /\ Len(price_diffs) = Len(inputs.vol_range)
        /\ \A a \in Rows :
              /\ Len(price_diffs[a]) = Len(inputs.spot_range)
              /\ \A b \in Cols :
                    price_diffs[a][b] =
                        Price(inputs.time_to_maturity, args.strike, inputs.spot_range[b],
                              inputs.vol_range[a], inputs.interest_rate, args.option_type)

\* A finished 2 x 2 (or larger) heatmap for a strike other than the base model's,
\* with a cell that the base model's strike would price differently.
C1_Witness ==
    /\ pc = "plot" /\ fn = "plot_heatmap"
    /\ Len(inputs.vol_range) >= 2 /\ Len(inputs.spot_range) >= 2
    /\ args.strike # obj.bs_model.strike
    /\ IsFin(price_diffs[2][2])
    /\ price_diffs[2][2] #
           Price(inputs.time_to_maturity, obj.bs_model.strike, inputs.spot_range[2],
                 inputs.vol_range[2], inputs.interest_rate, args.option_type)
    /\ price_diffs[2][2] # price_diffs[1][2]
    /\ price_diffs[2][2] # price_diffs[2][1]

\* C2: when plot_price_diff_colormap has filled its matrix and the figure returned
\* just before it is plot_heatmap's for the same ranges and option_type with the
\* base model's strike, every cell [a][b] of the difference matrix is the heatmap's
\* cell [a][b] minus purchase_price_range[a] (the reference of the volatility row).
C2_DiffIsHeatmapMinusReference ==
    ( /\ pc = "plot" /\ fn = "plot_price_diff_colormap"
      /\ fig.fn = "plot_heatmap"
      /\ fig.option_type = args.option_type
      /\ fig.strike = obj.bs_model.strike ) =>
        \A a \in Rows : \A b \in Cols :
            price_diffs[a][b] = FSub(fig.data[a][b], args.purchase_price_range[a])

\* Such a pair of sweeps over a 2 x 2 (or larger) grid whose rows have different
\* references.
C2_Witness ==
    /\ pc = "plot" /\ fn = "plot_price_diff_colormap"
    /\ fig.fn = "plot_heatmap"
    /\ fig.option_type = args.option_type
    /\ fig.strike = obj.bs_model.strike
    /\ Len(inputs.vol_range) >= 2 /\ Len(inputs.spot_range) >= 2
    /\ Len(args.purchase_price_range) = Len(inputs.vol_range)
    /\ args.purchase_price_range[1] # args.purchase_price_range[2]
    /\ IsFin(price_diffs[2][2]) /\ price_diffs[2][2] # fig.data[2][2]

\* C3: put-call parity.  For every object calculate_prices has run on with S, K, T,
\* sigma > 0, call_price - put_price equals S - K * exp(-rT) up to the rounding of
\* the four products it is made of (two units of the last place).
C3_PutCallParity ==
    \A name \in Names :
        LET o == obj[name] IN
        (Calculated(o) /\ Valid(o)) =>
            /\ IsFin(o.call_price) /\ IsFin(o.put_price)
            /\ Abs(FSub(FSub(o.call_price, o.put_price),
                        FSub(o.current_price, FMul(o.strike, Discount(o)))).v) <= 2

\* A calculated valid object off the money with a non-zero rate and two different,
\* non-zero prices.
C3_Witness ==
    \E name \in Names :
        LET o == obj[name] IN
        /\ Calculated(o) /\ Valid(o)
        /\ o.current_price.v # o.strike.v
        /\ o.interest_rate.v # 0
        /\ o.call_price.v > 0 /\ o.put_price.v > 0
        /\ o.call_price # o.put_price

\* C4: a call of plot_price_diff_colormap whose purchase_price_range is shorter or
\* longer than vol_range never gets to draw its matrix (it fails instead); stated
\* for base models with valid parameters, where nothing else can fail.
C4_MismatchFails ==
    ~ ( /\ pc = "plot" /\ fn = "plot_price_diff_colormap"
        /\ Valid(obj.bs_model)
        /\ Len(args.purchase_price_range) # Len(inputs.vol_range) )

\* C5: no object with a strike, spot, volatility or time_to_maturity <= 0 ever
\* holds a computed price or Greek (the invalid parameter is rejected first).
C5_InvalidParameterRejected ==
    \A name \in Names :
        LET o == obj[name] IN
        (Bound(o) /\ ~Valid(o)) => \A f \in DerivedFields : o[f] = Unset

\* C6: a sweep gets to the end of its loop only if every cell it evaluated had
\* valid parameters and, in the difference sweep, a reference for its row.
C6_NoPartialSweep ==
    (pc = "plot" /\ InSweep) =>
        \A a \in Rows : \A b \in Cols :
            /\ Valid(BlackScholes(obj.bs_model.time_to_maturity,
                                  IF fn = "plot_heatmap" THEN args.strike
                                                         ELSE obj.bs_model.strike,
                                  inputs.spot_range[b], inputs.vol_range[a],
                                  obj.bs_model.interest_rate))
            /\ (fn = "plot_price_diff_colormap" => a <= Len(args.purchase_price_range))

\* C7: for every object calculate_prices has run on with valid parameters,
\* call_gamma is pdf(d1) / (S * sigma * sqrt(T)) with S the current price, and
\* put_gamma equals call_gamma.
C7_GammaUsesSpot ==
    \A name \in Names :
        LET o == obj[name] IN
        (Calculated(o) /\ Valid(o)) =>
            /\ o.call_gamma =
                   FDiv(NormPdf(D1(o)),
                        FMul(FMul(o.current_price, o.volatility),
                             Sqrt(o.time_to_maturity)))
            /\ o.put_gamma = o.call_gamma

\* C8: for every object calculate_prices has run on with valid parameters,
\* put_delta is cdf(d1) - 1, is <= 0, and call_delta - put_delta is 1.
C8_PutDelta ==
    \A name \in Names :
        LET o == obj[name] IN
        (Calculated(o) /\ Valid(o)) =>
            /\ o.put_delta = FSub(NormCdf(D1(o)), One)
            /\ o.put_delta.v <= 0
            /\ FSub(o.call_delta, o.put_delta).v = ONE

\* What one step may do, for C9.
C9_Step ==
    \* once the base evaluation is over, nothing changes the base model
    /\ (pc \notin {"L183", "L184"}) => obj'.bs_model = obj.bs_model
    \* each cell starts from a new object holding the cell's five parameters only
    /\ (pc = "new") =>
          obj'.bs_temp =
              BlackScholes(inputs.time_to_maturity,
                           IF fn = "plot_heatmap" THEN args.strike ELSE inputs.strike,
                           inputs.spot_range[j], inputs.vol_range[i],
                           inputs.interest_rate)
    \* the value stored for the cell is a function of the cell's inputs, whatever
    \* was evaluated before, and no other cell changes
    /\ (pc = "store" /\ pc' # "error") =>
          LET p == Price(inputs.time_to_maturity,
                         IF fn = "plot_heatmap" THEN args.strike ELSE inputs.strike,
                         inputs.spot_range[j], inputs.vol_range[i],
                         inputs.interest_rate, args.option_type)
          IN  price_diffs' =
                  [price_diffs EXCEPT ![i][j] =
                      IF fn = "plot_heatmap" THEN p
                      ELSE FSub(p, args.purchase_price_range[i])]

\* C9: the sweeps, run any number of times in any order, never change the base
\* model's parameters or stored results, evaluate every cell on a newly constructed
\* object, and store for cell [i][j] a value that depends only on spot_range[j],
\* vol_range[i], the strike, T, r and option_type (and the row's reference).
C9_SweepsArePure == [][C9_Step]_vars

\* A sweep that follows a completed one is about to store its last cell, computed
\* on an object whose parameters are not the base model's.
C9_Witness ==
    /\ pc = "store" /\ InSweep
    /\ fig.fn # "none"
    /\ i >= 2 /\ j >= 2
    /\ Calculated(obj.bs_model) /\ Calculated(obj.bs_temp)
    /\ obj.bs_temp.current_price.v # obj.bs_model.current_price.v
    /\ obj.bs_temp.volatility.v # obj.bs_model.volatility.v
    /\ obj.bs_temp.call_price # obj.bs_model.call_price

\* C10: whenever the script is about to read bs_temp.call_price or
\* bs_temp.put_price (the only reads of derived attributes), all six derived
\* attributes of that object are set, and the two prices are those of the
\* parameters the object holds.
C10_ReadAfterCalculate ==
    (pc = "store") =>
        LET o  == obj.bs_temp
            d1 == D1(o)
            d2 == D2(o, d1)
        IN  /\ \A f \in DerivedFields : o[f] # Unset
            /\ o.call_price = CallPrice(o, d1, d2)
            /\ o.put_price = PutPrice(o, d1, d2)

\* A read in the second row of a sweep, of an object with a finite price.
C10_Witness ==
    /\ pc = "store" /\ InSweep /\ i >= 2
    /\ IsFin(obj.bs_temp.call_price) /\ obj.bs_temp.call_price.v > 0

====
